---- MODULE Spec2Model ----
(***************************************************************************)
(* Kindle to PDF converter (src/src/kindle2pdf.py): the pagination driver  *)
(* render_book, the batch fetch render_book_pages with its session         *)
(* renewal, image download and decryption, and the page compositor         *)
(* render_pdf.                                                             *)
(*                                                                         *)
(* Time is counted in milliseconds.  Lengths on the page are exact         *)
(* rationals with denominator Dpi: a length of n stands for n / Dpi        *)
(* points, so that the scaling by 72 / dpi loses nothing.                  *)
(*                                                                         *)
(* The page-layout document of a reply is read lazily: its pages and their *)
(* children are drawn when the loops of render_pdf reach them.  Nothing    *)
(* before that point reads them, so the behaviours are those of a reply    *)
(* whose page list was fixed on arrival.                                   *)
(***************************************************************************)
EXTENDS Integers, Sequences, FiniteSets, TLC

(***************************************************************************)
(* Bounds of the model.                                                    *)
(***************************************************************************)
\* content positions of children, pages, links and of the book's end: 0..MaxPos
MaxPos == 1
\* milliseconds that pass during a run, at most
MaxElapsed == 1

(***************************************************************************)
(* Program constants.                                                      *)
(***************************************************************************)
\* the safety margin of the expiry test, 5 seconds
ExpiryMargin == 5000
\* num_pages of render_book
NumPages == 6
\* the default dpi
Dpi == 160
\* points per inch, the 72 of the transform scaling
PtPerInch == 72
\* page_size[1] in points: the constructor's page height (A4, to the point)
PageHeight == 842
\* auth["expiresAt"] % 60
IndexModulus == 60
\* the length of the key material slice of the token
KeyMaterialLen == 40
\* the length of the additional authenticated data
AadLen == 9
\* the time of the first step of a run
StartTime == 10000

Max(a, b) == IF a >= b THEN a ELSE b
Min(a, b) == IF a <= b THEN a ELSE b

\* "key in mapping" of Python
Has(mapping, key) == key \in DOMAIN mapping

\* list(range(a, b))
Range(a, b) == [k \in 1..(IF b > a THEN b - a ELSE 0) |-> a + k - 1]

\* the elements of a sequence
Elems(s) == {s[k] : k \in 1..Len(s)}

(***************************************************************************)
(* The data a reply of the rendering service is made of.                   *)
(***************************************************************************)
\* the member names of the JSON documents of a reply
PageDoc == "page_data_0_5.json"
GlyphsDoc == "glyphs.json"
ManifestDoc == "manifest.json"

\* the image references of the book
ImageRefs == {"i1.jpg"}

\* the decoded bytes of an image
Plain(ref) == <<"jpeg", ref>>

\* a vector path is a sequence of characters; "m" starts a relative move
PathMoveLine == <<"m", "1", ",", "2", " ", "l", "3", "z">>
PathLine == <<"M", "0", "l", "3", "m", "-", "4", "z">>
EmptyPath == <<>>

\* jsons["glyphs.json"]: the font table of a reply.  Glyph "1" and "2" have
\* paths, glyph "3" an empty path, glyph "4" no path at all.
GlyphsJson ==
    << [fontKey |-> "f1", unitsPerEm |-> 1000,
        glyphs |-> [g \in {"1", "2", "3", "4"} |->
                      CASE g = "1" -> [path |-> PathMoveLine]
                        [] g = "2" -> [path |-> PathLine]
                        [] g = "3" -> [path |-> EmptyPath]
                        [] OTHER -> [advance |-> 7]]] >>

\* transform and rect of a child, in device pixels: a line of text, and a
\* picture scaled by two
LineGeometry ==
    [transform |-> <<1, 0, 0, 1, 10, 20>>, rect |-> [right |-> 30, bottom |-> 4]]
PictureGeometry ==
    [transform |-> <<2, 0, 0, 2, 0, 100>>, rect |-> [right |-> 5, bottom |-> 6]]

\* the typed part of a child: text runs over the font table (glyph 5 is in no
\* font, font "f9" is not in the table) and images
Runs ==
    { [type |-> "run", fontKey |-> "f1", glyphs |-> <<1, 3, 2>>,
       xPosition |-> <<0, 8, 16>>, fontSize |-> 12, textColor |-> "#000"],
      [type |-> "run", fontKey |-> "f1", glyphs |-> <<4>>,
       xPosition |-> <<0>>, fontSize |-> 12, textColor |-> "#000"],
      [type |-> "run", fontKey |-> "f1", glyphs |-> <<5>>,
       xPosition |-> <<0>>, fontSize |-> 12, textColor |-> "#000"],
      [type |-> "run", fontKey |-> "f9", glyphs |-> <<1>>,
       xPosition |-> <<0>>, fontSize |-> 12, textColor |-> "#000"],
      [type |-> "run", fontKey |-> "f9", glyphs |-> <<>>,
       xPosition |-> <<>>, fontSize |-> 12, textColor |-> "#000"] }

Images == {[type |-> "image", imageReference |-> ref] : ref \in ImageRefs}

Positions == 0..MaxPos

\* the optional fields of a child: each may be absent
OptionalFields ==
    {<<>>}
      \cup {[startPositionId |-> s] : s \in Positions}
      \cup {[link |-> [linkPositionId |-> d]] : d \in Positions}
      \cup {[startPositionId |-> s, link |-> [linkPositionId |-> d]] :
              s \in Positions, d \in Positions}

\* the children a page may hold
Children ==
    {typed @@ LineGeometry @@ optional :
        typed \in Runs, optional \in OptionalFields}
      \cup {typed @@ PictureGeometry @@ optional :
               typed \in Images, optional \in OptionalFields}

(***************************************************************************)
(* render_pdf: the page compositor.  Each operator gives the canvas calls  *)
(* of its lines in call order, the exception that ended them ("" when      *)
(* none) and the new start_pos.                                            *)
(***************************************************************************)
BookmarkPage(key) == [op |-> "bookmarkPage", key |-> key]

\* "for start_pos in range(start_pos, stop)": the keys visited, and start_pos
\* after the loop (the last key visited; unchanged when the range is empty)
ForRange(start_pos, stop) ==
    [visited |-> Range(start_pos, stop),
     start_pos |-> IF stop > start_pos THEN stop - 1 ELSE start_pos]

\* the assignment without the max: start_pos falls back to stop
AdvanceToStop(start_pos, stop) == stop

\* "start_pos = max(start_pos, stop)" after the loop
AdvanceTo(start_pos, stop) == Max(start_pos, stop)

\* the bookmarks up to stop (exclusive) and the start_pos they leave
BookmarkRange(start_pos, stop) ==
    LET loop == ForRange(start_pos, stop)
    IN  [calls |-> [k \in 1..Len(loop.visited) |-> BookmarkPage(loop.visited[k])],
         start_pos |-> AdvanceTo(loop.start_pos, stop)]

\* the bookmarks of a child, the cursor moved past the larger of itself and
\* startPositionId
ChildBookmarksPastMax(child, start_pos) ==
    IF Has(child, "startPositionId")
    THEN [calls |-> BookmarkRange(start_pos, child.startPositionId + 1).calls,
          start_pos |-> Max(start_pos, child.startPositionId) + 1]
    ELSE [calls |-> <<>>, start_pos |-> start_pos]

\* the bookmarks of a child that declares startPositionId
ChildBookmarks(child, start_pos) ==
    IF Has(child, "startPositionId")
    THEN BookmarkRange(start_pos, child.startPositionId + 1)
    ELSE [calls |-> <<>>, start_pos |-> start_pos]

\* transform scaled by 72 / dpi, and the box of the child on the page
ChildBox(child) ==
    LET transform == [k \in 1..6 |-> child.transform[k] * PtPerInch]
        width == child.rect.right * transform[1]
        height == child.rect.bottom * transform[4]
        x == transform[5]
        y == PageHeight * Dpi - transform[6] - height
    IN  [transform |-> transform, width |-> width, height |-> height,
         x |-> x, y |-> y]

\* the first font record of the table with the child's fontKey, else []
FindFont(fonts, fontKey) ==
    LET hits == {k \in 1..Len(fonts) : fonts[k].fontKey = fontKey}
    IN  IF hits = {} THEN <<>>
        ELSE fonts[CHOOSE k \in hits : \A j \in hits : k <= j]

NumericChars == {"0", "1", "2", "3", "4", "5", "6", "7", "8", "9",
                 ".", ",", "-", " "}

\* the length of the longest run of numeric characters at the head of path
RECURSIVE NumericPrefix(_)
NumericPrefix(path) ==
    IF path # <<>> /\ Head(path) \in NumericChars
    THEN 1 + NumericPrefix(Tail(path))
    ELSE 0

\* re.sub(r"m[\d\.\,\-\s]+", "", path)
RECURSIVE StripRelativeMoves(_)
StripRelativeMoves(path) ==
    IF path = <<>> THEN <<>>
    ELSE IF Head(path) = "m" /\ NumericPrefix(Tail(path)) > 0
         THEN StripRelativeMoves(
                  SubSeq(path, 2 + NumericPrefix(Tail(path)), Len(path)))
         ELSE <<Head(path)>> \o StripRelativeMoves(Tail(path))

\* the test that lets every path through
NoPathNever(path) == FALSE

\* line 370: not path
NoPath(path) == path = <<>>

\* the glyph loop of a run from glyph i on: the <g> groups composed, and the
\* exception that ended it
RECURSIVE GlyphGroups(_, _, _)
GlyphGroups(child, font, i) ==
    IF i > Len(child.glyphs) THEN [raised |-> "", groups |-> <<>>]
    ELSE IF font = <<>> THEN [raised |-> "TypeError", groups |-> <<>>]
    ELSE IF ~Has(font.glyphs, ToString(child.glyphs[i]))
         THEN [raised |-> "KeyError", groups |-> <<>>]
    ELSE LET glyph == font.glyphs[ToString(child.glyphs[i])]
             path == IF Has(glyph, "path") THEN glyph.path ELSE <<>>
             rest == GlyphGroups(child, font, i + 1)
         IN  IF NoPath(path) THEN rest
             ELSE [raised |-> rest.raised,
                   groups |->
                     <<[translate |-> child.xPosition[i],
                        scale |-> <<child.fontSize, font.unitsPerEm>>,
                        path |-> StripRelativeMoves(path),
                        fill |-> child.textColor]>> \o rest.groups]

\* the drawing of a child: a text run or an image
DrawChild(child, jsons, images, box) ==
    IF child.type = "run"
    THEN IF ~Has(jsons, GlyphsDoc) THEN [raised |-> "KeyError", calls |-> <<>>]
         ELSE LET font == FindFont(jsons[GlyphsDoc], child.fontKey)
                  glyphs == GlyphGroups(child, font, 1)
              IN  IF glyphs.raised # ""
                  THEN [raised |-> glyphs.raised, calls |-> <<>>]
                  ELSE [raised |-> "",
                        calls |-> <<[op |-> "draw", matrix |-> box.transform,
                                     groups |-> glyphs.groups,
                                     x |-> 0, y |-> PageHeight * Dpi]>>]
    ELSE IF child.type = "image"
    THEN IF ~Has(images, child.imageReference)
         THEN [raised |-> "KeyError", calls |-> <<>>]
         ELSE [raised |-> "",
               calls |-> <<[op |-> "drawImage",
                            image |-> images[child.imageReference],
                            x |-> box.x, y |-> box.y,
                            width |-> box.width, height |-> box.height]>>]
    ELSE [raised |-> "", calls |-> <<>>]

\* the link test with <= in place of <
LinkInBookInclusive(child, book_end_pos) ==
    Has(child, "link") /\ child.link.linkPositionId <= book_end_pos

\* the link test without the bound
LinkAnywhere(child, book_end_pos) == Has(child, "link")

\* line 403: the child has a link and its destination is inside the book
LinkInBook(child, book_end_pos) ==
    Has(child, "link") /\ child.link.linkPositionId < book_end_pos

\* the link annotation of a child
ChildLink(child, box, book_end_pos) ==
    IF LinkInBook(child, book_end_pos)
    THEN <<[op |-> "linkAbsolute",
            destinationname |-> child.link.linkPositionId,
            Rect |-> <<box.x, box.y, box.x + box.width, box.y + box.height>>]>>
    ELSE <<>>

\* one pass of "for child in page['children']"
ComposeChildOf(child, jsons, images, start_pos, book_end_pos) ==
    LET marks == ChildBookmarks(child, start_pos)
        box == ChildBox(child)
        drawn == DrawChild(child, jsons, images, box)
    IN  IF drawn.raised # ""
        THEN [raised |-> drawn.raised, calls |-> marks.calls,
              start_pos |-> marks.start_pos]
        ELSE [raised |-> "",
              calls |-> marks.calls \o drawn.calls
                          \o ChildLink(child, box, book_end_pos),
              start_pos |-> marks.start_pos]

\* the end of a page as the earlier render_book took it: the cursor is the
\* page's endPositionId + 1 whatever it was
EndPageAtEnd(endPositionId, start_pos) ==
    [calls |-> BookmarkRange(start_pos, endPositionId + 1).calls
                 \o <<[op |-> "showPage"]>>,
     start_pos |-> endPositionId + 1]

\* the end of a page with showPage ahead of the bookmarks
EndPageShowFirst(endPositionId, start_pos) ==
    [calls |-> <<[op |-> "showPage"]>>
                 \o BookmarkRange(start_pos, endPositionId + 1).calls,
     start_pos |-> BookmarkRange(start_pos, endPositionId + 1).start_pos]

\* the end of a page without showPage
EndPageUnfinished(endPositionId, start_pos) ==
    [calls |-> BookmarkRange(start_pos, endPositionId + 1).calls,
     start_pos |-> BookmarkRange(start_pos, endPositionId + 1).start_pos]

\* the end of a page: the bookmarks up to endPositionId and showPage
EndPageOf(endPositionId, start_pos) ==
    LET end_pos == endPositionId + 1
        marks == BookmarkRange(start_pos, end_pos)
    IN  [calls |-> marks.calls \o <<[op |-> "showPage"]>>,
         start_pos |-> marks.start_pos]

(***************************************************************************)
(* The session and the image encryption.  AES-GCM and PBKDF2 are symbolic: *)
(* a key is the pair it was derived from, a ciphertext names its key, iv   *)
(* and plaintext, a tag names what it authenticates.                       *)
(***************************************************************************)
\* the auth tokens the service hands out, and the characters of each
Tokens == {"tA", "tB"}
TokenLen == 100
\* a token shorter than the offsets of the key material reach
ShortToken == "tC"
TokenLength(token) == IF token = ShortToken THEN TokenLen \div 2 ELSE TokenLen
\* a string is a piece of a token: its characters from..to-1.  The
\* characters of the tokens are taken to be pairwise different, so that two
\* pieces are the same string exactly when they are the same piece or both
\* are empty.
TokenChars(token) == [of |-> token, from |-> 0, to |-> TokenLength(token)]

\* text[a : b] of Python, for 0 <= a <= b
Slice(text, a, b) ==
    LET from == Min(text.from + a, text.to)
        to == Min(text.from + b, text.to)
    IN  IF from = to THEN [of |-> "", from |-> 0, to |-> 0]
        ELSE [of |-> text.of, from |-> from, to |-> to]

\* lines 281-283: the key material of an auth
KeyMaterial(auth) ==
    LET i == auth.expiresAt % IndexModulus
    IN  Slice(TokenChars(auth.token), i, i + KeyMaterialLen)

\* kdf.derive(key_material) with the payload's salt
DeriveKey(key_material, salt) == [kdf |-> key_material, salt |-> salt]

\* p.encode()[:9]
Aad(key_material) == Slice(key_material, 0, AadLen)

\* a string of bytes: its length and what it holds
Bytes(len, what) == [len |-> len, what |-> what]
\* two strings of bytes one after the other
Cat(front, back) ==
    Bytes(front.len + back.len, [front |-> front, back |-> back])

\* the number of base64 characters that encode len bytes
B64Len(len) == 4 * ((len + 2) \div 3)
\* base64 text is a sequence of pieces: the characters from..to-1 of the
\* encoding of a string of bytes
B64Encode(bytes) == <<[of |-> bytes, from |-> 0, to |-> B64Len(bytes.len)]>>
PieceLen(piece) == piece.to - piece.from
RECURSIVE TextLen(_)
TextLen(text) ==
    IF text = <<>> THEN 0 ELSE PieceLen(Head(text)) + TextLen(Tail(text))

\* text[a : b] of Python on base64 text, for 0 <= a <= b: the pieces from
\* the k-th on, the k-th beginning at character at
RECURSIVE SliceFrom(_, _, _, _, _)
SliceFrom(text, k, at, a, b) ==
    IF k > Len(text) \/ at >= b THEN <<>>
    ELSE LET piece == text[k]
             size == piece.to - piece.from
             lo == IF a > at THEN a - at ELSE 0
             hi == IF b < at + size THEN b - at ELSE size
         IN  (IF lo < hi
              THEN <<[of |-> piece.of, from |-> piece.from + lo,
                      to |-> piece.from + hi]>>
              ELSE <<>>)
               \o SliceFrom(text, k + 1, at + size, a, b)

SliceText(text, a, b) == SliceFrom(text, 1, 0, a, b)

\* b64decode: the bytes, when the text is the whole encoding of a string of
\* bytes; otherwise other bytes or binascii.Error
B64Decode(text) ==
    IF Len(text) = 1 /\ text[1].from = 0 /\ text[1].to = B64Len(text[1].of.len)
    THEN [ok |-> TRUE, bytes |-> text[1].of]
    ELSE [ok |-> FALSE, bytes |-> Bytes(0, text)]

\* lines 286-288: the character offsets of the three parts
SaltChars == 24
IvEnd == 48
\* the lengths of the salt and of the initialization vector: the shortest
\* strings of bytes whose base64 fills the characters of each part, 16 bytes
SaltBytes == 3 * (SaltChars \div 4) - 2
IvBytes == 3 * ((IvEnd - SaltChars) \div 4) - 2
\* line 299: tag_length
TagLen == 16

\* the length of an image in bytes: with the tag, one fills whole groups of
\* base64 and the others need padding
PlainLen(ref) == IF ref \in ImageRefs THEN 2 ELSE 3
PlainData(ref) == Bytes(PlainLen(ref), Plain(ref))

\* the inverse of decrypt_images: the documented scheme by which the service
\* seals an image for an auth, base64(salt) | base64(iv) |
\* base64(ciphertext + tag)
Encrypt(plaintext, auth, salt, iv) ==
    LET key == DeriveKey(KeyMaterial(auth), salt)
        sealed == Bytes(plaintext.len,
                        [key |-> key, iv |-> iv, plaintext |-> plaintext.what])
        tag == Bytes(TagLen, [key |-> key, iv |-> iv,
                              aad |-> Aad(KeyMaterial(auth)), over |-> sealed])
    IN  [kind |-> "payload",
         text |-> B64Encode(salt) \o B64Encode(iv) \o B64Encode(Cat(sealed, tag))]

\* a payload one of whose ciphertext bytes was changed on the way
Tamper(payload) ==
    [payload EXCEPT !.text[3].of.what.front.what.plaintext = <<"changed", @>>]

\* image bytes that are not encrypted
PlainBytes(ref) == [kind |-> "jpeg", image |-> Plain(ref)]

\* the exception that bytes which are no payload end in
NotAPayload == "ValueError or InvalidTag"

\* the three parts cut at byte lengths instead of character offsets
PayloadPartsByBytes(text) ==
    [salt |-> B64Decode(SliceText(text, 0, SaltBytes)),
     iv |-> B64Decode(SliceText(text, SaltBytes, SaltBytes + IvBytes)),
     data |-> B64Decode(SliceText(text, SaltBytes + IvBytes, TextLen(text)))]

\* lines 286-288: salt, iv and encrypted_data
PayloadParts(text) ==
    [salt |-> B64Decode(SliceText(text, 0, SaltChars)),
     iv |-> B64Decode(SliceText(text, SaltChars, IvEnd)),
     data |-> B64Decode(SliceText(text, IvEnd, TextLen(text)))]

\* lines 299-301: encrypted_data[:-tag_length] and encrypted_data[-tag_length:]
SplitTag(data) ==
    IF DOMAIN data.what = {"front", "back"} /\ data.what.back.len = TagLen
    THEN [ok |-> TRUE, front |-> data.what.front, tag |-> data.what.back]
    ELSE [ok |-> FALSE, front |-> data, tag |-> data]

\* lines 286-312 for a payload: the parts, the key, the tag check of GCM
OpenPayload(bytes, key_material) ==
    LET parts == PayloadParts(bytes.text)
        failed == [raised |-> NotAPayload, bytes |-> bytes]
    IN  IF ~(parts.salt.ok /\ parts.iv.ok /\ parts.data.ok) THEN failed
        ELSE LET split == SplitTag(parts.data.bytes)
                 key == DeriveKey(key_material, parts.salt.bytes)
                 expected == Bytes(TagLen,
                                   [key |-> key, iv |-> parts.iv.bytes,
                                    aad |-> Aad(key_material),
                                    over |-> split.front])
             IN  IF ~split.ok THEN failed
                 ELSE IF split.tag = expected /\ split.front.what.key = key
                           /\ split.front.what.iv = parts.iv.bytes
                 THEN [raised |-> "",
                       bytes |-> [kind |-> "jpeg",
                                  image |-> split.front.what.plaintext]]
                 ELSE [raised |-> "InvalidTag", bytes |-> bytes]

\* one entry, with bytes that are no payload passed through as they are
DecryptOneLenient(bytes, key_material) ==
    IF bytes.kind # "payload" THEN [raised |-> "", bytes |-> bytes]
    ELSE OpenPayload(bytes, key_material)

\* lines 286-312 for one entry: the three slices of the bytes, the key, the
\* tag check of GCM.  Bytes that are no payload decode to slices that
\* b64decode or the cipher rejects (ValueError) or that no tag fits
\* (InvalidTag), whichever the bytes bring about.
DecryptOne(bytes, key_material) ==
    IF bytes.kind # "payload" THEN [raised |-> NotAPayload, bytes |-> bytes]
    ELSE OpenPayload(bytes, key_material)

\* the order in which a mapping of images is iterated: the order the entries
\* were inserted, which is the order of the manifest and of the archive
RefOrder == <<"i1.jpg", "i2.jpg">>
AllRefs == Elems(RefOrder)
KeysOf(images) == SelectSeq(RefOrder, LAMBDA ref : ref \in DOMAIN images)

\* the loop with a failed entry left as it is and the next one taken up
RECURSIVE DecryptFromSwallowing(_, _, _, _)
DecryptFromSwallowing(images, keys, k, key_material) ==
    IF k > Len(keys) THEN [raised |-> "", images |-> images]
    ELSE LET one == DecryptOne(images[keys[k]], key_material)
         IN  DecryptFromSwallowing([images EXCEPT ![keys[k]] = one.bytes],
                                   keys, k + 1, key_material)

\* decrypt_images: every entry in turn, in place, up to the first that raises
RECURSIVE DecryptFrom(_, _, _, _)
DecryptFrom(images, keys, k, key_material) ==
    IF k > Len(keys) THEN [raised |-> "", images |-> images]
    ELSE LET one == DecryptOne(images[keys[k]], key_material)
         IN  IF one.raised # "" THEN [raised |-> one.raised, images |-> images]
             ELSE DecryptFrom([images EXCEPT ![keys[k]] = one.bytes],
                              keys, k + 1, key_material)

DecryptImages(images, auth) ==
    DecryptFrom(images, KeysOf(images), 1, KeyMaterial(auth))

(***************************************************************************)
(* The collaborators: the session provider, the rendering service and the  *)
(* image CDN.  What they answer is chosen freely from these sets.          *)
(***************************************************************************)
\* how long after its issue a token expires
ShortLife == ExpiryMargin
LongLife == ExpiryMargin + MaxElapsed + 1

\* what startReading grants: a karamelToken and the time it lives
Grants == {[token |-> "tA", lifetime |-> ShortLife],
           [token |-> "tB", lifetime |-> LongLife]}

\* getDeviceToken rejected, a download restriction, a book not owned
Denied == [token |-> "", lifetime |-> 0]

\* a renewal that replaces the karamelToken and keeps the headers of the
\* first session
SessionOfStaleHeaders(metadata, grant, issued) ==
    [title |-> metadata.title,
     version |-> metadata.version,
     end_pos |-> metadata.endPosition,
     auth |-> [token |-> grant.token, expiresAt |-> issued + grant.lifetime],
     headers |-> [adp |-> <<"device", "tA">>],
     cookies |-> "chrome"]

\* lines 160-167: the session start_reading_session returns at time issued
SessionOf(metadata, grant, issued) ==
    [title |-> metadata.title,
     version |-> metadata.version,
     end_pos |-> metadata.endPosition,
     auth |-> [token |-> grant.token, expiresAt |-> issued + grant.lifetime],
     headers |-> [adp |-> <<"device", grant.token>>],
     cookies |-> "chrome"]

\* how long a request takes, in milliseconds
Delays == {0, 1}

\* the sets of JSON documents a reply may hold
ReplyShapes ==
    { {}, {PageDoc, GlyphsDoc, ManifestDoc}, {GlyphsDoc, ManifestDoc},
      {PageDoc, ManifestDoc} }

\* what is served for an image: encrypted for the auth of the request,
\* encrypted for another auth, not encrypted, changed on the way, or (the CDN
\* only) a response that is not 200
ByteKinds == {"sealed", "stale", "plain", "tampered"}
NotFound == "404"

Salt(ref) == Bytes(SaltBytes, <<"salt", ref>>)
Iv(ref) == Bytes(IvBytes, <<"iv", ref>>)
OtherAuth(auth) == [auth EXCEPT !.expiresAt = @ + 1]

Served(ref, kind, auth) ==
    CASE kind = "sealed" -> Encrypt(PlainData(ref), auth, Salt(ref), Iv(ref))
      [] kind = "stale" ->
           Encrypt(PlainData(ref), OtherAuth(auth), Salt(ref), Iv(ref))
      [] kind = "tampered" ->
           Tamper(Encrypt(PlainData(ref), auth, Salt(ref), Iv(ref)))
      [] OTHER -> PlainBytes(ref)

\* the images bundled in the archive, and the responses of the CDN to the
\* resources of the manifest
AssetFeeds == UNION {[refs -> {"sealed", "plain"}] : refs \in SUBSET ImageRefs}
CdnFeeds ==
    UNION {[refs -> ByteKinds \cup {NotFound}] : refs \in SUBSET ImageRefs}

\* a reply of the renderer: no archive at all, or an archive of documents
\* with bundled images or with a manifest of images to download
Replies ==
    {[tar |-> FALSE, names |-> {}, assets |-> <<>>, cdn |-> <<>>]}
      \cup {[tar |-> TRUE, names |-> names, assets |-> assets, cdn |-> <<>>] :
              names \in ReplyShapes, assets \in AssetFeeds \ {<<>>}}
      \cup {[tar |-> TRUE, names |-> names, assets |-> <<>>, cdn |-> cdn] :
              names \in ReplyShapes, cdn \in CdnFeeds}

\* the document of each member of the archive; the pages of the page-layout
\* document are read lazily
DocumentOf(name, reply) ==
    CASE name = GlyphsDoc -> GlyphsJson
      [] name = ManifestDoc ->
           [cdn |-> [baseUrl |-> "cdn", authParameter |-> "a=1"],
            cdnResources |->
              SelectSeq(RefOrder, LAMBDA ref : ref \in DOMAIN reply.cdn)]
      [] OTHER -> <<"pages">>

(***************************************************************************)
(* render_book_pages.                                                      *)
(***************************************************************************)
\* lines 181-184: time() > expiresAt / 1000 - 5, in milliseconds
\* the test without the clock: only forced refresh renews
NeedsRenewalForcedOnly(refresh, session, time) == refresh = TRUE

\* the test without the flag: only the clock renews
NeedsRenewalClockOnly(refresh, session, time) ==
    time > session.auth.expiresAt - ExpiryMargin

\* the test with >= in place of >
NeedsRenewalAtMargin(refresh, session, time) ==
    refresh = TRUE \/ time >= session.auth.expiresAt - ExpiryMargin

NeedsRenewal(refresh, session, time) ==
    refresh = TRUE \/ time > session.auth.expiresAt - ExpiryMargin

\* a use of the auth: the render request, an image download, the key
\* derivation
Use(what, auth, at) == [what |-> what, auth |-> auth, at |-> at]

\* download_images: the resources of the manifest whose response is 200
DownloadImages(manifest, reply, auth) ==
    [ref \in {r \in Elems(manifest.cdnResources) : reply.cdn[r] # NotFound} |->
        Served(ref, reply.cdn[ref], auth)]

\* lines 222-238 with the session as it is after the expiry test: what the
\* reply to the render request yields, whatever time it takes
FetchOutcome(session, reply) ==
    LET jsons == [name \in reply.names |-> DocumentOf(name, reply)]
        assets == [ref \in DOMAIN reply.assets |->
                     Served(ref, reply.assets[ref], session.auth)]
        bundled == DOMAIN assets # {}
        downloaded == DownloadImages(jsons[ManifestDoc], reply, session.auth)
        requested == ~bundled /\ jsons[ManifestDoc].cdnResources # <<>>
        images == IF bundled THEN assets ELSE downloaded
        decrypted == DecryptImages(images, session.auth)
        failed == IF bundled THEN {}
                  ELSE {ref \in Elems(jsons[ManifestDoc].cdnResources) :
                          reply.cdn[ref] = NotFound}
        nothing == [raised |-> "", jsons |-> <<>>, images |-> <<>>,
                    served |-> <<>>, failed |-> {}, requested |-> FALSE,
                    derived |-> FALSE]
    IN  IF ~reply.tar
        THEN [nothing EXCEPT !.raised = "ReadError"]
        ELSE IF ~bundled /\ ~Has(jsons, ManifestDoc)
        THEN [nothing EXCEPT !.raised = "KeyError"]
        ELSE [raised |-> decrypted.raised,
              jsons |-> IF decrypted.raised = "" THEN jsons ELSE <<>>,
              images |-> IF decrypted.raised = "" THEN decrypted.images ELSE <<>>,
              served |-> images,
              failed |-> failed,
              requested |-> requested,
              derived |-> DOMAIN images # {}]

\* the outcome with the key derived from another auth than the one sent
TimedStaleKey(outcome, auth, at, took, fetching) ==
    [raised |-> outcome.raised,
     jsons |-> outcome.jsons,
     images |-> outcome.images,
     served |-> outcome.served,
     failed |-> outcome.failed,
     uses |-> {Use("render", auth, at)}
                \cup (IF outcome.requested
                      THEN {Use("download", auth, at + took)}
                      ELSE {})
                \cup (IF outcome.derived
                      THEN {Use("derive", OtherAuth(auth), at + took + fetching)}
                      ELSE {}),
     now |-> at + took + (IF outcome.requested THEN fetching ELSE 0)]

\* the outcome with its times: the render request at time at, taking took,
\* the downloads taking fetching
Timed(outcome, auth, at, took, fetching) ==
    [raised |-> outcome.raised,
     jsons |-> outcome.jsons,
     images |-> outcome.images,
     served |-> outcome.served,
     failed |-> outcome.failed,
     uses |-> {Use("render", auth, at)}
                \cup (IF outcome.requested
                      THEN {Use("download", auth, at + took)}
                      ELSE {})
                \cup (IF outcome.derived
                      THEN {Use("derive", auth, at + took + fetching)}
                      ELSE {}),
     now |-> at + took + (IF outcome.requested THEN fetching ELSE 0)]

\* lines 187-238
RenderBookPagesOf(session, reply, at, took, fetching) ==
    Timed(FetchOutcome(session, reply), session.auth, at, took, fetching)

(***************************************************************************)
(* The state of a run of render_book.                                      *)
(***************************************************************************)
VARIABLES
    pc,            \* where the run is
    error,         \* the exception that ended the run, "" when none
    metadata,      \* the book's metadata as the service holds it
    session,       \* self.session
    refresh,       \* self.refresh
    now,           \* time(), in milliseconds
    start_pos,     \* start_pos of render_book
    jsons,         \* jsons of render_book
    images,        \* images of render_book
    cursor,        \* start_pos of render_pdf
    pdf_canvas,    \* the canvas: bookmark keys in call order, link
                   \* destinations, calls of save()
    call,          \* the render_book_pages call under way or just ended
    observe,       \* whether the steps of render_pdf are recorded in seen
    seen           \* the last step of render_pdf: its input and its calls

vars == <<pc, error, metadata, session, refresh, now, start_pos, jsons,
          images, cursor, pdf_canvas, call, observe, seen>>

\* no call yet.  A call records the time and the expiresAt of its expiry test,
\* what the test said, whether the session was renewed, the parameters and the
\* uses of the auth, and whether the reply held no JSON document
NoCall == [check_time |-> -1, tested |-> -1, held |-> <<>>, due |-> FALSE, renewed |-> FALSE, served |-> <<>>, failed |-> {},
           uses |-> {}, startingPosition |-> -1, numPage |-> 0,
           replied |-> "nothing"]
NoSeen == [step |-> "none"]

\* the canvas after a sequence of calls
RECURSIVE Drawn(_, _)
Drawn(canvas, calls) ==
    IF calls = <<>> THEN canvas
    ELSE LET c == Head(calls)
             next ==
               CASE c.op = "bookmarkPage" ->
                      [canvas EXCEPT !.bookmarks = Append(@, c.key)]
                 [] c.op = "linkAbsolute" ->
                      [canvas EXCEPT !.links = @ \cup {c.destinationname}]
                 [] OTHER -> canvas
         IN  Drawn(next, Tail(calls))

\* the expiry of the session the run starts with, relative to its start
InitialExpiries ==
    {StartTime - ExpiryMargin - 1, StartTime - ExpiryMargin + 1,
     StartTime + ExpiryMargin - 1, StartTime + ExpiryMargin,
     StartTime + ExpiryMargin + 1, StartTime + ExpiryMargin + MaxElapsed + 1}

\* the books a run converts, and the books render_pdf is handed when it is
\* exercised on its own
Books == [title : {"Book"}, version : {"v1"}, endPosition : 0..MaxPos]
ComposedBooks ==
    [title : {"Book"}, version : {"v1"}, endPosition : {MaxPos, MaxPos + 1}]

\* the state render_book starts in: the session of the constructor, a new
\* canvas, start_pos = 0
Init ==
    /\ pc = "loop"
    /\ error = ""
    /\ metadata \in Books
    /\ \E expiresAt \in InitialExpiries :
         session = SessionOf(metadata, [token |-> "tA", lifetime |-> expiresAt], 0)
    /\ refresh \in BOOLEAN
    /\ now = StartTime
    /\ start_pos = 0
    /\ jsons = <<>>
    /\ images = <<>>
    /\ cursor = 0
    /\ pdf_canvas = [bookmarks |-> <<>>, links |-> {}, saved |-> 0]
    /\ call = NoCall
    /\ observe = FALSE
    /\ seen = NoSeen

\* the loop test off by one: the last position is never fetched
InBookStrict(position, book) == position < book.end_pos

\* a loop that never tests the end of the book
InBookAlways(position, book) == TRUE

\* line 443: start_pos <= self.session["end_pos"]
InBook(position, book) == position <= book.end_pos

\* the latest time the model lets a run reach
Deadline == StartTime + MaxElapsed

Raise(name) == pc' = "raised" /\ error' = name

(***************************************************************************)
(* The steps of a run.                                                     *)
(***************************************************************************)
\* lines 443-447 and 181-185: the loop test passes, render_book_pages is
\* entered and the session is renewed when the expiry test says so
EnsureSession ==
    /\ pc = "loop"
    /\ InBook(start_pos, session)
    /\ LET due == NeedsRenewal(refresh, session, now)
           entered == [NoCall EXCEPT !.check_time = now, !.due = due,
                                     !.tested = session.auth.expiresAt,
                                     !.held = session.auth,
                                     !.startingPosition = start_pos,
                                     !.numPage = NumPages]
       IN  IF due
           THEN \E grant \in Grants \cup {Denied}, took \in Delays :
                  /\ now + took <= Deadline
                  /\ now' = now + took
                  /\ IF grant = Denied
                     THEN /\ Raise("Kindle2PDFError")
                          /\ call' = entered
                          /\ UNCHANGED session
                     ELSE /\ session' = SessionOf(metadata, grant, now')
                          /\ call' = [entered EXCEPT !.renewed = TRUE]
                          /\ pc' = "request"
                          /\ UNCHANGED error
           ELSE /\ pc' = "request"
                /\ call' = entered
                /\ UNCHANGED <<error, session, now>>
    /\ UNCHANGED <<metadata, refresh, start_pos, jsons, images, cursor, pdf_canvas, observe, seen>>

\* lines 187-238: the render request, the archive, the images and their
\* decryption
RequestPages ==
    /\ pc = "request"
    /\ \E reply \in Replies :
       \E outcome \in {FetchOutcome(session, reply)} :
       \E took \in Delays :
       \E fetching \in IF DOMAIN reply.cdn = {} THEN {0} ELSE Delays :
       \E got \in {Timed(outcome, session.auth, now, took, fetching)} :
             /\ got.now <= Deadline
             /\ now' = got.now
             /\ call' = [call EXCEPT !.uses = got.uses,
                                      !.served = got.served,
                                      !.failed = got.failed,
                                      !.replied = IF ~reply.tar THEN "no archive"
                                                  ELSE IF reply.names = {}
                                                  THEN "no document"
                                                  ELSE "documents"]
             /\ jsons' = got.jsons
             /\ images' = got.images
             /\ IF got.raised # "" THEN Raise(got.raised)
                ELSE pc' = "fetched" /\ UNCHANGED error
    /\ UNCHANGED <<metadata, session, refresh, start_pos, cursor, pdf_canvas, observe, seen>>

\* the test that never finds the batch empty
NoDocumentsNever(documents) == FALSE

\* line 448: not jsons
NoDocuments(documents) == DOMAIN documents = {}

\* lines 448-458 and 337-342: no document at all ends the run; else
\* render_pdf is entered with the start_pos of render_book
EnterRenderPdf ==
    /\ pc = "fetched"
    /\ IF NoDocuments(jsons)
       THEN pc' = "returned_none" /\ UNCHANGED cursor
       ELSE pc' = "pages" /\ cursor' = start_pos
    /\ call' = NoCall
    /\ UNCHANGED <<error, metadata, session, refresh, now, start_pos, jsons,
                   images, pdf_canvas, observe, seen>>

\* line 344: the page list holds another page
BeginPage ==
    /\ pc = "pages"
    /\ Has(jsons, PageDoc)
    /\ pc' = "children"
    /\ UNCHANGED <<error, metadata, session, refresh, now, start_pos, jsons,
                   images, cursor, pdf_canvas, call, observe, seen>>

\* lines 345-408: the page holds another child
ComposeChild ==
    /\ pc = "children"
    /\ \E child \in Children :
         LET did == ComposeChildOf(child, jsons, images, cursor, session.end_pos)
         IN  /\ pdf_canvas' = Drawn(pdf_canvas, did.calls)
             /\ cursor' = did.start_pos
             /\ seen' = IF observe
                        THEN [step |-> "child", child |-> child,
                              before |-> cursor, raised |-> did.raised,
                              calls |-> did.calls]
                        ELSE seen
             /\ IF did.raised # "" THEN Raise(did.raised)
                ELSE UNCHANGED <<pc, error>>
    /\ UNCHANGED <<metadata, session, refresh, now, start_pos, jsons, images, call, observe>>

\* lines 410-421: the page has no further child
EndPage ==
    /\ pc = "children"
    /\ \E endPositionId \in Positions :
         LET did == EndPageOf(endPositionId, cursor)
         IN  /\ pdf_canvas' = Drawn(pdf_canvas, did.calls)
             /\ cursor' = did.start_pos
             /\ seen' = IF observe
                        THEN [step |-> "page", endPositionId |-> endPositionId,
                              before |-> cursor, raised |-> "",
                              calls |-> did.calls]
                        ELSE seen
    /\ pc' = "pages"
    /\ UNCHANGED <<error, metadata, session, refresh, now, start_pos, jsons,
                   images, call, observe>>

\* lines 423 and 451: the page list has no further page; render_pdf returns
\* its start_pos to render_book
ReturnCursor ==
    /\ pc = "pages"
    /\ start_pos' = cursor
    /\ pc' = "loop"
    /\ UNCHANGED <<error, metadata, session, refresh, now, jsons, images,
                   cursor, pdf_canvas, call,
                   observe, seen>>

\* lines 443 and 460-462: the loop test fails, the canvas is saved
Save ==
    /\ pc = "loop"
    /\ ~InBook(start_pos, session)
    /\ pdf_canvas' = [pdf_canvas EXCEPT !.saved = @ + 1]
    /\ pc' = "returned_path"
    /\ UNCHANGED <<error, metadata, session, refresh, now, start_pos, jsons,
                   images, cursor, call, observe,
                   seen>>

Next ==
    \/ EnsureSession
    \/ RequestPages
    \/ EnterRenderPdf
    \/ BeginPage
    \/ ComposeChild
    \/ EndPage
    \/ ReturnCursor
    \/ Save

Spec == Init /\ [][Next]_vars

(***************************************************************************)
(* render_pdf on its own: one call, from any start_pos, over the documents *)
(* and decrypted images of any reply, every step recorded in seen.  The    *)
(* run goes on to the next loop test and expiry test of render_book.       *)
(***************************************************************************)
InitCompose ==
    /\ pc = "fetched"
    /\ error = ""
    /\ metadata \in ComposedBooks
    /\ session = SessionOf(metadata, [token |-> "tB", lifetime |-> LongLife],
                           StartTime)
    /\ refresh = FALSE
    /\ now = StartTime
    /\ start_pos = 0
    /\ \E reply \in Replies :
         LET got == RenderBookPagesOf(session, reply, now, 0, 0)
         IN  /\ reply.tar
             /\ got.raised = ""
             /\ jsons = got.jsons
             /\ images = got.images
    /\ cursor = start_pos
    /\ pdf_canvas = [bookmarks |-> Range(0, start_pos), links |-> {},
                     saved |-> 0]
    /\ call = NoCall
    /\ observe = TRUE
    /\ seen = NoSeen

NextCompose ==
    \/ EnterRenderPdf
    \/ BeginPage
    \/ ComposeChild
    \/ EndPage
    \/ ReturnCursor
    \/ EnsureSession
    \/ Save

SpecCompose == InitCompose /\ [][NextCompose]_vars

(***************************************************************************)
(* decrypt_images on its own: any mapping of up to two entries, each       *)
(* encrypted for the auth, encrypted for another auth, changed on the way  *)
(* or not encrypted at all, and any auth.                                  *)
(***************************************************************************)
Auths == [token : Tokens \cup {ShortToken},
          expiresAt : {StartTime, StartTime + 1, StartTime + IndexModulus - 1}]

InitDecrypt ==
    /\ pc = "decrypt"
    /\ error = ""
    /\ metadata \in Books
    /\ \E auth \in Auths :
         /\ session = [SessionOf(metadata, [token |-> auth.token, lifetime |-> 0], 0)
                         EXCEPT !.auth = auth]
         /\ \E refs \in SUBSET AllRefs : \E kinds \in [refs -> ByteKinds] :
              images = [ref \in refs |-> Served(ref, kinds[ref], auth)]
    /\ refresh = FALSE
    /\ now = StartTime
    /\ start_pos = 0
    /\ jsons = <<>>
    /\ cursor = 0
    /\ pdf_canvas = [bookmarks |-> <<>>, links |-> {}, saved |-> 0]
    /\ call = NoCall
    /\ observe = TRUE
    /\ seen = NoSeen

\* line 236: decrypt_images(images, auth), the mapping changed in place
Decrypt ==
    /\ pc = "decrypt"
    /\ LET did == DecryptImages(images, session.auth)
       IN  /\ images' = did.images
           /\ seen' = [step |-> "decrypt", before |-> images]
           /\ IF did.raised # "" THEN Raise(did.raised)
              ELSE pc' = "decrypted" /\ UNCHANGED error
    /\ UNCHANGED <<metadata, session, refresh, now, start_pos, jsons, cursor,
                   pdf_canvas, call, observe>>

NextDecrypt == Decrypt

SpecDecrypt == InitDecrypt /\ [][NextDecrypt]_vars

(***************************************************************************)
(* render_pdf over a whole page list: a run whose first batch holds the    *)
(* document, page after page and child after child, then the loop test of  *)
(* render_book and the save.                                               *)
(***************************************************************************)
MaxPages == 2

\* lines 345-408 for the children of one page from the k-th on
RECURSIVE ComposeChildren(_, _, _, _, _, _)
ComposeChildren(children, k, documents, pictures, from, book_end_pos) ==
    IF k > Len(children)
    THEN [raised |-> "", calls |-> <<>>, start_pos |-> from]
    ELSE LET did == ComposeChildOf(children[k], documents, pictures, from,
                                   book_end_pos)
         IN  IF did.raised # "" THEN did
             ELSE LET rest == ComposeChildren(children, k + 1, documents,
                                              pictures, did.start_pos,
                                              book_end_pos)
                  IN  [rest EXCEPT !.calls = did.calls \o @]

\* lines 344-421 for the pages from the k-th on
RECURSIVE ComposePages(_, _, _, _, _, _)
ComposePages(pages, k, documents, pictures, from, book_end_pos) ==
    IF k > Len(pages)
    THEN [raised |-> "", calls |-> <<>>, start_pos |-> from]
    ELSE LET drew == ComposeChildren(pages[k].children, 1, documents,
                                     pictures, from, book_end_pos)
         IN  IF drew.raised # "" THEN drew
             ELSE LET ended == EndPageOf(pages[k].endPositionId,
                                         drew.start_pos)
                      rest == ComposePages(pages, k + 1, documents, pictures,
                                           ended.start_pos, book_end_pos)
                  IN  [rest EXCEPT !.calls = drew.calls \o ended.calls \o @]

\* lines 336-342: the page list is the first page_data_0_ document, or empty
PagesOf(documents) ==
    IF PageDoc \in DOMAIN documents THEN documents[PageDoc] ELSE <<>>

\* lines 314-423: render_pdf
RenderPdfOf(documents, pictures, from, book_end_pos) ==
    ComposePages(PagesOf(documents), 1, documents, pictures, from,
                 book_end_pos)

\* the children of the document's pages: a text run or an image, plain,
\* with a startPositionId, or with a link to the first position
DocumentFields ==
    {o \in OptionalFields :
        Has(o, "link") =>
            o.link.linkPositionId = 0 /\ ~Has(o, "startPositionId")}
DocumentChildren ==
    {typed @@ LineGeometry @@ optional :
        typed \in {run \in Runs : run.glyphs = <<1, 3, 2>>},
        optional \in DocumentFields}
      \cup {typed @@ PictureGeometry @@ optional :
               typed \in Images, optional \in DocumentFields}

DocumentPages ==
    [children : {<<>>} \cup {<<c>> : c \in DocumentChildren},
     endPositionId : Positions]

Documents ==
    UNION {[1..n -> DocumentPages] : n \in 1..MaxPages}

InitDocument ==
    /\ pc = "fetched"
    /\ error = ""
    /\ metadata \in ComposedBooks
    /\ session = SessionOf(metadata, [token |-> "tB", lifetime |-> LongLife],
                           StartTime)
    /\ refresh = FALSE
    /\ now = StartTime
    /\ start_pos = 0
    /\ \E pages \in Documents :
         jsons = (GlyphsDoc :> GlyphsJson) @@ (PageDoc :> pages)
    /\ images = [ref \in ImageRefs |-> PlainBytes(ref)]
    /\ cursor = start_pos
    /\ pdf_canvas = [bookmarks |-> <<>>, links |-> {}, saved |-> 0]
    /\ call = NoCall
    /\ observe = TRUE
    /\ seen = NoSeen

\* lines 448-458: the batch is not empty and render_pdf composes all of it;
\* its return value is the next start_pos
RenderPdf ==
    /\ pc = "fetched"
    /\ ~NoDocuments(jsons)
    /\ LET did == RenderPdfOf(jsons, images, start_pos, session.end_pos)
       IN  /\ pdf_canvas' = Drawn(pdf_canvas, did.calls)
           /\ seen' = [step |-> "batch", before |-> start_pos,
                       raised |-> did.raised, calls |-> did.calls]
           /\ IF did.raised # ""
              THEN Raise(did.raised) /\ UNCHANGED <<start_pos, cursor>>
              ELSE /\ pc' = "loop"
                   /\ start_pos' = did.start_pos
                   /\ cursor' = did.start_pos
                   /\ UNCHANGED error
    /\ UNCHANGED <<metadata, session, refresh, now, jsons, images, call,
                   observe>>

NextDocument ==
    \/ RenderPdf
    \/ EnsureSession
    \/ Save

SpecDocument == InitDocument /\ [][NextDocument]_vars

(***************************************************************************)
(* main: the session is established by the constructor, render_book runs,  *)
(* the file is uploaded when asked for, and the exit status is returned.   *)
(***************************************************************************)
NoSession == <<>>

InitMain ==
    /\ pc = "main"
    /\ error = ""
    /\ metadata \in {book \in Books : book.endPosition = MaxPos}
    /\ session = NoSession
    /\ refresh \in BOOLEAN
    /\ now = StartTime
    /\ start_pos = 0
    /\ jsons = <<>>
    /\ images = <<>>
    /\ cursor = 0
    /\ pdf_canvas = [bookmarks |-> <<>>, links |-> {}, saved |-> 0]
    /\ call = NoCall
    /\ observe = FALSE
    /\ seen = NoSeen

\* lines 506-510 and 89: Kindle2PDF(...) starts the first reading session;
\* lines 435-441: render_book begins at position 0
Construct ==
    /\ pc = "main"
    /\ \/ /\ Raise("Kindle2PDFError")
          /\ UNCHANGED session
       \/ /\ \E expiresAt \in InitialExpiries :
               session' = SessionOf(metadata,
                                    [token |-> "tA", lifetime |-> expiresAt],
                                    0)
          /\ pc' = "loop"
          /\ UNCHANGED error
    /\ UNCHANGED <<metadata, refresh, now, start_pos, jsons, images, cursor,
                   pdf_canvas, call, observe, seen>>

\* an exit status that does not tell a failure
ExitStatusZero(raised) == 0

\* lines 512-516: return 1 after a Kindle2PDFError, return 0 otherwise
ExitStatus(raised) == IF raised THEN 1 ELSE 0

\* line 512: except Kindle2PDFError; any other exception leaves main
Caught(name) == name = "Kindle2PDFError"

\* lines 510-516: render_book has returned or raised; the upload of the
\* path it returned, and the exit status
MainReturn ==
    /\ pc \in {"returned_path", "returned_none", "raised"}
    /\ pc = "raised" => Caught(error)
    /\ \E remarkable \in BOOLEAN :
         seen' = [step |-> "exit",
                  status |-> ExitStatus(pc = "raised"),
                  uploaded |-> remarkable /\ pc = "returned_path"]
    /\ pc' = "exit"
    /\ UNCHANGED <<error, metadata, session, refresh, now, start_pos, jsons,
                   images, cursor, pdf_canvas, call, observe>>

NextMain ==
    \/ Construct
    \/ EnsureSession
    \/ RequestPages
    \/ EnterRenderPdf
    \/ BeginPage
    \/ ComposeChild
    \/ EndPage
    \/ ReturnCursor
    \/ Save
    \/ MainReturn

SpecMain == InitMain /\ [][NextMain]_vars

(***************************************************************************)
(* The properties.                                                         *)
(***************************************************************************)
Saved == pdf_canvas.saved > 0
Bookmarked == Elems(pdf_canvas.bookmarks)

\* C1: whatever startPositionId and endPositionId the pages of the batches
\* carry, the keys passed to bookmarkPage are, in call order, exactly
\* 0, 1, ..., cursor - 1: every position below the cursor once, in increasing
\* order, none skipped; the cursor a finished run ends with is the one
\* render_pdf returned.
C1_BookmarksCoverCursor ==
    /\ pdf_canvas.bookmarks = Range(0, cursor)
    /\ pc \in {"loop", "request", "fetched", "returned_path", "returned_none"}
         => cursor = start_pos

\* a saved run that bookmarked every position of the model
C1_Witness ==
    /\ pc = "returned_path"
    /\ pdf_canvas.bookmarks = Range(0, MaxPos + 1)

Fetched == call.uses # {}
\* the call in progress has made its expiry test
Tested == call.check_time # -1

\* C3 as stated: no use of the token (render request, image download, key
\* derivation) happens at a time at or after the token's expiry minus the
\* margin.
C3_NeverUsedInsideMargin ==
    \A use \in call.uses : use.at < use.auth.expiresAt - ExpiryMargin

\* C3: the token is tested once, on entry to render_book_pages, and the token
\* every use of the call carries is the session's token after that test; when
\* the test did not renew, the time of the test is at most (not strictly
\* below) the token's expiry minus the margin, and every use is at or after
\* the time of the test.
C3_TestedOnEntry ==
    Fetched =>
        /\ \A use \in call.uses : use.auth = session.auth /\ use.at >= call.check_time
        /\ ~call.renewed =>
             /\ session.auth = call.held
             /\ call.check_time <= session.auth.expiresAt - ExpiryMargin

\* an unrenewed token is used exactly at its expiry minus the margin
C3_Witness ==
    /\ Fetched
    /\ ~call.renewed
    /\ \E use \in call.uses : use.at = use.auth.expiresAt - ExpiryMargin

\* C4 as stated: with forced refresh off, expiresAt 5001 ms before the time
\* of the test renews, expiresAt 4999 ms before it does not.
C4_BoundaryBehindNow ==
    (Tested /\ ~refresh) =>
        /\ call.tested = call.check_time - (ExpiryMargin + 1) => call.due
        /\ call.tested = call.check_time - (ExpiryMargin - 1) => ~call.due

\* C4: with forced refresh off, the boundary lies ahead of the time of the
\* test: expiresAt 4999 ms after it renews, expiresAt 5000 ms or 5001 ms
\* after it does not; an expiresAt behind it (by 5001 ms or by 4999 ms)
\* renews.
C4_BoundaryAheadOfNow ==
    (Tested /\ ~refresh) =>
        /\ call.tested \in {call.check_time - (ExpiryMargin + 1),
                             call.check_time - (ExpiryMargin - 1),
                             call.check_time + (ExpiryMargin - 1)} => call.due
        /\ call.tested \in {call.check_time + ExpiryMargin,
                             call.check_time + (ExpiryMargin + 1)} => ~call.due

\* a token that expired 4999 ms before the test is renewed
C4_Witness ==
    /\ Tested
    /\ ~refresh
    /\ call.tested = call.check_time - (ExpiryMargin - 1)
    /\ call.due
    /\ call.renewed

\* C5: a call that has sent its render request renewed the session before it
\* exactly when forced refresh is on or the time of the test is past the
\* tested expiry minus the margin; otherwise the request carries the auth of
\* the session the call was entered with.
C5_RenewalBeforeFetch ==
    Fetched =>
        /\ call.renewed <=>
             (refresh \/ call.check_time > call.tested - ExpiryMargin)
        /\ ~call.renewed => \A use \in call.uses : use.auth = call.held
        /\ call.startingPosition = start_pos /\ call.numPage = NumPages

\* a fetch that follows a renewal made because of the clock alone
C5_Witness ==
    /\ Fetched
    /\ call.renewed
    /\ ~refresh
    /\ call.check_time > call.tested - ExpiryMargin

\* a fetch made with the session the call was entered with
C5_WitnessKept ==
    /\ Fetched
    /\ ~call.renewed
    /\ \E use \in call.uses : use.what = "download" /\ use.auth = call.held

\* the linkAbsolute calls among the canvas calls of a step
LinkCalls(calls) == SelectSeq(calls, LAMBDA c : c.op = "linkAbsolute")
\* the child render_pdf composed last, without an exception
Composed == seen.step = "child" /\ seen.raised = ""

\* C6: a child with a link that render_pdf has composed made exactly one
\* linkAbsolute call, to its destination and over (x, y, x + width,
\* y + height) of its box, when the destination is below the book's end_pos,
\* and none when it is end_pos or more; a child without a link made none.
C6_LinkIffInsideBook ==
    Composed =>
        LET child == seen.child
            box == ChildBox(child)
            made == LinkCalls(seen.calls)
        IN  IF Has(child, "link") /\ child.link.linkPositionId < session.end_pos
            THEN /\ Len(made) = 1
                 /\ made[1].destinationname = child.link.linkPositionId
                 /\ made[1].Rect = <<box.x, box.y, box.x + box.width,
                                     box.y + box.height>>
                 /\ seen.calls[Len(seen.calls)] = made[1]
            ELSE made = <<>>

\* a link to end_pos - 1 was emitted
C6_Witness ==
    /\ Composed
    /\ Has(seen.child, "link")
    /\ seen.child.link.linkPositionId = session.end_pos - 1
    /\ Len(LinkCalls(seen.calls)) = 1

\* a link to end_pos exactly was not emitted
C6_WitnessAtEnd ==
    /\ Composed
    /\ Has(seen.child, "link")
    /\ seen.child.link.linkPositionId = session.end_pos
    /\ LinkCalls(seen.calls) = <<>>

\* C7: in a run that has saved the document, every destination of a link
\* annotation on the canvas is a position that was bookmarked.
C7_LinksResolve == Saved => pdf_canvas.links \subseteq Bookmarked

\* a saved document with a link in it
C7_Witness ==
    /\ Saved
    /\ pdf_canvas.links # {}
    /\ pdf_canvas.links \subseteq Bookmarked

\* the page render_pdf ended last
PageEnded == seen.step = "page"

\* C8 as stated: after a page the cursor is that page's endPositionId + 1, and
\* so is the startingPosition of the next fetch.
C8_CursorIsEndPlusOne ==
    PageEnded =>
        /\ cursor = seen.endPositionId + 1
        /\ pc = "request" => call.startingPosition = seen.endPositionId + 1

\* C8: after a page the cursor is the larger of the cursor before the page's
\* end and the page's endPositionId + 1 (it never moves back); render_pdf
\* returns the cursor after the last page of the batch and the next fetch
\* starts there.
C8_CursorIsMaxOfEndPlusOne ==
    PageEnded =>
        /\ cursor = Max(seen.before, seen.endPositionId + 1)
        /\ pc \in {"loop", "request"} => start_pos = cursor
        /\ pc = "request" => call.startingPosition = cursor

\* the next fetch starts past the last page's endPositionId + 1
C8_Witness ==
    /\ PageEnded
    /\ pc = "request"
    /\ seen.before > seen.endPositionId + 1
    /\ call.startingPosition = seen.before

\* the next fetch starts at the last page's endPositionId + 1
C8_WitnessInOrder ==
    /\ PageEnded
    /\ pc = "request"
    /\ seen.before <= seen.endPositionId
    /\ call.startingPosition = seen.endPositionId + 1

\* C9: when render_book_pages has returned no JSON document, the next step of
\* the run is "return None"; a run that has returned None or that an
\* exception has ended takes no further step (no fetch, no save), and it has
\* not saved the canvas.
C9_EmptyBatchEndsRun ==
    /\ [](pc = "returned_none" => ~Saved /\ error = "" /\ jsons = <<>>)
    /\ [][/\ (pc = "fetched" /\ jsons = <<>>) =>
               (pc' = "returned_none" /\ pdf_canvas' = pdf_canvas
                  /\ start_pos' = start_pos)
          /\ pc \notin {"returned_none", "raised"}]_vars

\* a batch of images without any document ended the run
C9_Witness ==
    /\ pc = "returned_none"
    /\ jsons = <<>>
    /\ DOMAIN images # {}
    /\ ~Saved

\* what decrypt_images was handed: entries in plaintext or encrypted for the
\* auth it was given, and the place of the first plaintext entry (0 if none)
Decrypted == seen.step = "decrypt"
IsPlaintext(bytes) == bytes.kind = "jpeg"
WellFormed(before, auth) ==
    \A ref \in DOMAIN before :
        before[ref] \in {PlainBytes(ref), Served(ref, "sealed", auth)}
FirstPlaintext(before) ==
    LET keys == KeysOf(before)
        at == {k \in 1..Len(keys) : IsPlaintext(before[keys[k]])}
    IN  IF at = {} THEN 0 ELSE CHOOSE k \in at : \A j \in at : k <= j

\* C10 as stated: plaintext entries are left unchanged, no error is raised,
\* and the encrypted entries are replaced by their plaintext.
C10_PlaintextIsNoOp ==
    (Decrypted /\ WellFormed(seen.before, session.auth)) =>
        /\ error = ""
        /\ \A ref \in DOMAIN seen.before : images[ref] = PlainBytes(ref)

\* C10: decrypt_images decrypts the entries in the order of the mapping and
\* raises (ValueError or InvalidTag, as the bytes bring about) at the first
\* plaintext entry: the entries before it are
\* replaced by their plaintext, it and the entries after it are unchanged;
\* without a plaintext entry no error is raised and every entry is replaced.
C10_PlaintextRaises ==
    (Decrypted /\ WellFormed(seen.before, session.auth)) =>
        LET keys == KeysOf(seen.before)
            first == FirstPlaintext(seen.before)
        IN  /\ DOMAIN images = DOMAIN seen.before
            /\ error = IF first = 0 THEN "" ELSE NotAPayload
            /\ \A k \in 1..Len(keys) :
                 images[keys[k]] =
                    IF first = 0 \/ k < first THEN PlainBytes(keys[k])
                    ELSE seen.before[keys[k]]

\* an encrypted entry was decrypted, then a plaintext entry raised
C10_Witness ==
    /\ Decrypted
    /\ WellFormed(seen.before, session.auth)
    /\ FirstPlaintext(seen.before) = 2
    /\ ~IsPlaintext(seen.before[RefOrder[1]])
    /\ images[RefOrder[1]] = PlainBytes(RefOrder[1])
    /\ images[RefOrder[2]] = seen.before[RefOrder[2]]
    /\ error = NotAPayload

\* the images the call under way was served, before their decryption, hold
\* a payload that was changed or that was sealed for another auth
ServedBroken ==
    \E ref \in DOMAIN call.served :
        /\ call.served[ref].kind = "payload"
        /\ call.served[ref] # Served(ref, "sealed", session.auth)

\* C11: when an image payload of a batch is tampered or was sealed with other
\* key material, the run ends there with the exception of the decryption:
\* nothing of the batch reaches the canvas, the run takes no further step (no
\* later fetch, no save) and the canvas is not saved; the images a batch is
\* composed with are all decrypted ones.
C11_DecryptionFailureIsFatal ==
    /\ [](ServedBroken =>
            /\ pc = "raised"
            /\ error \in {"InvalidTag", NotAPayload}
            /\ ~Saved
            /\ cursor = start_pos
            /\ pdf_canvas.bookmarks = Range(0, start_pos))
    /\ [](pc \in {"fetched", "pages", "children"} =>
            \A ref \in DOMAIN images : images[ref] = PlainBytes(ref))
    /\ [][/\ (pc' = "raised" /\ pc = "request") => pdf_canvas' = pdf_canvas
          /\ pc # "raised"]_vars

\* a tampered payload ended a run that had composed an earlier batch
C11_Witness ==
    /\ ServedBroken
    /\ error = "InvalidTag"
    /\ pc = "raised"
    /\ pdf_canvas.bookmarks # <<>>
    /\ ~Saved

\* every entry decrypt_images was handed is an image sealed for the auth it
\* was given
AllSealed ==
    \A ref \in DOMAIN seen.before :
        seen.before[ref] = Encrypt(PlainData(ref), session.auth, Salt(ref), Iv(ref))

\* C12: for every auth, a mapping whose entries were each encrypted under the
\* documented scheme for that auth (key material token[i : i + 40] with
\* i = expiresAt % 60, a salt of the payload's own, the first 9 characters as
\* additional data, base64 salt | iv | ciphertext + tag) is decrypted
\* without an error, and every entry comes out as exactly the plaintext that
\* was encrypted.
C12_RoundTrip ==
    (Decrypted /\ AllSealed) =>
        /\ error = ""
        /\ pc = "decrypted"
        /\ DOMAIN images = DOMAIN seen.before
        /\ \A ref \in DOMAIN images :
             images[ref] = [kind |-> "jpeg", image |-> Plain(ref)]

\* two images of different lengths came back, under a token too short for
\* the whole 40 characters of key material
C12_Witness ==
    /\ Decrypted
    /\ AllSealed
    /\ DOMAIN seen.before = AllRefs
    /\ session.auth.token = ShortToken
    /\ \A ref \in AllRefs : images[ref] = PlainBytes(ref)
    /\ \A ref \in AllRefs : seen.before[ref] # images[ref]

\* the font keys of the table, and the text runs whose lookups fail: the
\* run's font key is in no record of the table, or one of its glyphs is in no
\* glyph table of its font
FontKeys == {GlyphsJson[k].fontKey : k \in 1..Len(GlyphsJson)}
FontMissing(child) ==
    child.type = "run" /\ child.fontKey \notin FontKeys
GlyphMissing(child) ==
    /\ child.type = "run"
    /\ \E k \in 1..Len(GlyphsJson) :
         /\ GlyphsJson[k].fontKey = child.fontKey
         /\ \E i \in 1..Len(child.glyphs) :
              ToString(child.glyphs[i]) \notin DOMAIN GlyphsJson[k].glyphs
\* render_pdf has just taken up a run whose font or glyph lookup fails, with
\* the font table at hand
LookupFailed ==
    /\ seen.step = "child"
    /\ Has(jsons, GlyphsDoc)
    /\ seen.child.type = "run"
    /\ seen.child.glyphs # <<>>
    /\ FontMissing(seen.child) \/ GlyphMissing(seen.child)

\* C13 as stated: a run whose font key or glyph is missing is skipped and
\* nothing else: no exception, the children that follow are composed, and
\* the cursor has advanced past the run's startPositionId.
C13_LookupFailureSkipsRun ==
    LookupFailed =>
        /\ seen.raised = ""
        /\ error = ""
        /\ pc = "children"
        /\ Has(seen.child, "startPositionId") =>
             cursor = Max(seen.before, seen.child.startPositionId + 1)

\* a run with a font key the table lacks ended render_pdf with a TypeError
C13_Witness ==
    /\ LookupFailed
    /\ FontMissing(seen.child)
    /\ pc = "raised"
    /\ error = "TypeError"
    /\ ~Saved

\* the glyph records of a run whose font is in the table and whose glyph ids
\* are all in that font's glyph table, in glyph order
GlyphRecords(child) ==
    LET font == GlyphsJson[CHOOSE k \in 1..Len(GlyphsJson) :
                              GlyphsJson[k].fontKey = child.fontKey]
    IN  [i \in 1..Len(child.glyphs) |-> font.glyphs[ToString(child.glyphs[i])]]
\* whether a glyph record has a path that is not empty
Visible(glyph) == "path" \in DOMAIN glyph /\ glyph.path # <<>>
\* render_pdf has just taken up a run all of whose lookups succeed
RunLookedUp ==
    /\ seen.step = "child"
    /\ Has(jsons, GlyphsDoc)
    /\ seen.child.type = "run"
    /\ ~FontMissing(seen.child)
    /\ ~GlyphMissing(seen.child)

\* C14: for a run whose font and glyph ids are in the table, no exception
\* is raised and the drawing holds one group for every glyph whose record has
\* a non-empty path, in glyph order and at that glyph's xPosition; a glyph
\* whose record has an empty path or none contributes no group.
C14_EmptyPathsDrawNothing ==
    RunLookedUp =>
        LET child == seen.child
            glyphs == GlyphRecords(child)
            marks == SelectSeq([i \in 1..Len(glyphs) |-> i],
                               LAMBDA i : Visible(glyphs[i]))
            draws == SelectSeq(seen.calls, LAMBDA c : c.op = "draw")
        IN  /\ seen.raised = ""
            /\ Len(draws) = 1
            /\ Len(draws[1].groups) = Len(marks)
            /\ \A k \in 1..Len(marks) :
                 draws[1].groups[k].translate = child.xPosition[marks[k]]

\* a run of three glyphs, the middle one with an empty path, drew two groups
C14_Witness ==
    /\ RunLookedUp
    /\ Len(seen.child.glyphs) = 3
    /\ \E i \in 1..3 : ~Visible(GlyphRecords(seen.child)[i])
    /\ seen.raised = ""
    /\ \E c \in Elems(seen.calls) : c.op = "draw" /\ Len(c.groups) = 2

\* a run whose only glyph has no path at all drew no group
C14_WitnessNoPath ==
    /\ RunLookedUp
    /\ Len(seen.child.glyphs) = 1
    /\ "path" \notin DOMAIN GlyphRecords(seen.child)[1]
    /\ seen.raised = ""
    /\ \E c \in Elems(seen.calls) : c.op = "draw" /\ c.groups = <<>>

(***************************************************************************)
(* C15.  A complete run over a document of N pages.                        *)
(***************************************************************************)
Complete == pc = "returned_path" /\ seen.step = "batch"
ShowPages ==
    Cardinality({k \in DOMAIN seen.calls : seen.calls[k].op = "showPage"})
FinalEnd == PagesOf(jsons)[Len(PagesOf(jsons))].endPositionId

\* C15 as stated: a complete run over N pages has N finalized pages and a
\* bookmark for every position from 0 through the final page's
\* endPositionId + 1, that position included
C15_BookmarksThroughEndPlusOne ==
    Complete =>
        /\ ShowPages = Len(PagesOf(jsons))
        /\ \A p \in 0..(FinalEnd + 1) : p \in Bookmarked

\* C15: a complete run over N pages has N finalized pages and exactly one
\* bookmark, in order, for every position below the final cursor; the
\* cursor is at least the final page's endPositionId + 1, so every position
\* through that endPositionId is bookmarked, and endPositionId + 1 itself is
\* bookmarked only when the cursor had already gone past it
C15_BookmarksBelowFinalCursor ==
    Complete =>
        /\ ShowPages = Len(PagesOf(jsons))
        /\ pdf_canvas.bookmarks = Range(0, start_pos)
        /\ start_pos >= FinalEnd + 1
        /\ \A p \in 0..FinalEnd : p \in Bookmarked
        /\ (FinalEnd + 1) \in Bookmarked <=> start_pos > FinalEnd + 1

C15_Witness ==
    /\ Complete
    /\ Len(PagesOf(jsons)) = 2
    /\ PagesOf(jsons)[1].children # <<>>
    /\ PagesOf(jsons)[1].children[1].type = "run"
    /\ PagesOf(jsons)[2].children # <<>>
    /\ PagesOf(jsons)[2].children[1].type = "image"
    /\ start_pos = FinalEnd + 1
    /\ (FinalEnd + 1) \notin Bookmarked

C15_WitnessPast ==
    /\ Complete
    /\ Len(PagesOf(jsons)) = 2
    /\ start_pos > FinalEnd + 1
    /\ (FinalEnd + 1) \in Bookmarked

(***************************************************************************)
(* C16.  A session that cannot be established or renewed.                  *)
(***************************************************************************)
SessionFailed == pc = "raised" /\ error = "Kindle2PDFError"
Exited == pc = "exit"

\* C16: a session that cannot be established by the constructor or renewed
\* in the run raises Kindle2PDFError with nothing saved; the only step
\* after it is the return of main with exit status 1, with no upload and
\* the canvas left as it was
C16_SessionFailureExitsNonZero ==
    /\ [](SessionFailed => ~Saved /\ (session = NoSession \/ call.due))
    /\ [](Exited /\ error = "Kindle2PDFError" =>
            seen.status = 1 /\ ~seen.uploaded /\ ~Saved)
    /\ [][SessionFailed =>
            /\ pc' = "exit"
            /\ seen'.status # 0
            /\ ~seen'.uploaded
            /\ pdf_canvas' = pdf_canvas]_vars

\* a renewal refused after pages were composed, and main has returned
C16_Witness ==
    /\ Exited
    /\ error = "Kindle2PDFError"
    /\ session # NoSession
    /\ call.due
    /\ ~call.renewed
    /\ Bookmarked # {}
    /\ seen.status = 1

\* the constructor could not establish the session, and main has returned
C16_WitnessConstruction ==
    /\ Exited
    /\ error = "Kindle2PDFError"
    /\ session = NoSession
    /\ seen.status = 1

(***************************************************************************)
(* C17.  A fetch that fails.                                               *)
(***************************************************************************)
BatchRequestFailed == call.replied = "no archive"
DownloadFailed == call.failed # {}

\* C17 as stated: when the page-batch request or an image download returns
\* a non-success response, the run is aborted there: it has raised, and
\* nothing is saved
C17_FetchFailureAborts ==
    (BatchRequestFailed \/ DownloadFailed) => pc = "raised" /\ ~Saved

\* what the code does: an image download that is not 200 is left out of the
\* images and the batch goes on to render_pdf without an error
C17_Witness ==
    /\ DownloadFailed
    /\ pc = "fetched"
    /\ error = ""
    /\ \A ref \in call.failed : ref \notin DOMAIN images
    /\ ~NoDocuments(jsons)

\* a reply of the renderer that is no archive does end the run
C17_WitnessNoArchive ==
    /\ BatchRequestFailed
    /\ pc = "raised"
    /\ error = "ReadError"

(***************************************************************************)
(* C18.  What changes the session.                                         *)
(***************************************************************************)
Renewed == call.renewed
RenewalFailed == pc = "raised" /\ error = "Kindle2PDFError" /\ call.due

\* C18: the session changes only in the step of render_book_pages that
\* renews it, and then it is a whole new session (title, version, end_pos,
\* auth, headers and cookies of one start_reading_session call, the headers
\* and the auth of the same grant); the request, the downloads, the
\* decryption and the composition leave every field as it was, and so does
\* a renewal that fails
C18_SessionChangesOnlyByRenewal ==
    /\ [](session.headers = [adp |-> <<"device", session.auth.token>>])
    /\ [](RenewalFailed => session.auth = call.held)
    /\ [][session' # session =>
            /\ pc = "loop"
            /\ pc' = "request"
            /\ call'.renewed
            /\ \E grant \in Grants :
                  session' = SessionOf(metadata, grant, now')]_vars
    /\ [][pc' = "raised" => session' = session]_vars

\* a renewal replaced the session, and the batch was fetched and composed
\* with it
C18_Witness ==
    /\ session.auth.token = "tB"
    /\ session.headers = [adp |-> <<"device", "tB">>]
    /\ Bookmarked # {}
    /\ pc = "loop"

\* a renewal failed and the session is the one held before
C18_WitnessFailed ==
    /\ RenewalFailed
    /\ session.auth = call.held
    /\ Bookmarked # {}

(***************************************************************************)
(* C19.  The bookmarks of a child that declares startPositionId.           *)
(***************************************************************************)
ChildAtPosition == seen.step = "child" /\ Has(seen.child, "startPositionId")
MarkedKeys ==
    LET marks == SelectSeq(seen.calls, LAMBDA c : c.op = "bookmarkPage")
    IN  [k \in 1..Len(marks) |-> marks[k].key]

\* C19 as stated: a child with startPositionId s met at cursor c bookmarks c
\* through s and leaves the cursor at max(c, s) + 1
C19_CursorIsMaxPlusOne ==
    ChildAtPosition =>
        /\ MarkedKeys = Range(seen.before, seen.child.startPositionId + 1)
        /\ cursor = Max(seen.before, seen.child.startPositionId) + 1

\* C19: a child with startPositionId s met at cursor c bookmarks c through s
\* and leaves the cursor at max(c, s + 1): at s + 1 when c <= s, and where
\* it was, with no bookmark, when c > s
C19_CursorIsMaxOfNext ==
    ChildAtPosition =>
        /\ MarkedKeys = Range(seen.before, seen.child.startPositionId + 1)
        /\ cursor = Max(seen.before, seen.child.startPositionId + 1)
        /\ seen.before > seen.child.startPositionId =>
              MarkedKeys = <<>> /\ cursor = seen.before

\* the cursor was already past startPositionId
C19_Witness ==
    /\ ChildAtPosition
    /\ seen.before > seen.child.startPositionId
    /\ cursor = seen.before

\* the cursor was at or below startPositionId
C19_WitnessAdvance ==
    /\ ChildAtPosition
    /\ seen.before < seen.child.startPositionId
    /\ Len(MarkedKeys) = 2
    /\ cursor = seen.child.startPositionId + 1

(***************************************************************************)
(* C20.  The order and the start of the fetches.                           *)
(***************************************************************************)
Requesting == pc = "request"

\* C20: the run begins at position 0; a fetch is issued only from the loop
\* test, that is at the start of the run or after render_pdf has returned
\* for the batch before, whose images were all decrypted; it asks for
\* NumPages pages from the cursor render_pdf returned, which lies in
\* [0, end_pos]; nothing else is requested until its reply has been
\* handled, and start_pos changes only to the cursor render_pdf returns
C20_FetchesFollowTheCursor ==
    /\ (pc = "loop" /\ start_pos = 0 /\ cursor = 0)
    /\ [](Requesting =>
            /\ call.startingPosition = cursor
            /\ call.startingPosition = start_pos
            /\ call.startingPosition \in 0..session.end_pos
            /\ call.numPage = NumPages)
    /\ [](pc \in {"pages", "children"} =>
            \A ref \in DOMAIN images : images[ref] = PlainBytes(ref))
    /\ [][pc' = "request" => pc = "loop"]_vars
    /\ [][Requesting => pc' \in {"fetched", "raised"}]_vars
    /\ [][start_pos' # start_pos =>
            pc = "pages" /\ pc' = "loop" /\ start_pos' = cursor]_vars

\* a later fetch: pages were composed and the request starts at the cursor
C20_Witness ==
    /\ Requesting
    /\ Bookmarked # {}
    /\ call.startingPosition = cursor
    /\ call.startingPosition > 0

\* the first fetch
C20_WitnessFirst ==
    /\ Requesting
    /\ Bookmarked = {}
    /\ call.startingPosition = 0

(***************************************************************************)
(* C21.  The finalization of the pages of a batch.                         *)
(***************************************************************************)
BatchComposed == seen.step = "batch" /\ seen.raised = ""

\* the places of the showPage calls among the calls of the batch, ascending
RECURSIVE PlacesFrom(_, _)
PlacesFrom(calls, k) ==
    IF k > Len(calls) THEN <<>>
    ELSE (IF calls[k].op = "showPage" THEN <<k>> ELSE <<>>)
           \o PlacesFrom(calls, k + 1)
ShowPlaces == PlacesFrom(seen.calls, 1)

\* the calls made for the k-th page: those after the showPage before it and
\* ahead of its own
PageCalls(k) ==
    SubSeq(seen.calls, IF k = 1 THEN 1 ELSE ShowPlaces[k - 1] + 1,
           ShowPlaces[k] - 1)

\* the draw and link calls the children of a page ask for, in their order
RECURSIVE ChildCalls(_, _)
ChildCalls(children, k) ==
    IF k > Len(children) THEN <<>>
    ELSE DrawChild(children[k], jsons, images, ChildBox(children[k])).calls
           \o ChildLink(children[k], ChildBox(children[k]), session.end_pos)
           \o ChildCalls(children, k + 1)

\* C21: a composed batch of N pages has N showPage calls, the last call of
\* all; the calls ahead of the k-th showPage and after the one before it are
\* the draw and link calls of the children of the k-th page, in order, with
\* bookmarks only; when the k-th showPage is called every position through
\* that page's endPositionId has its bookmark
C21_PagesFinalizedOnceInOrder ==
    BatchComposed =>
        /\ Len(ShowPlaces) = Len(PagesOf(jsons))
        /\ ShowPlaces[Len(ShowPlaces)] = Len(seen.calls)
        /\ \A k \in 1..Len(PagesOf(jsons)) :
              /\ SelectSeq(PageCalls(k), LAMBDA c : c.op # "bookmarkPage")
                   = ChildCalls(PagesOf(jsons)[k].children, 1)
              /\ \A p \in 0..PagesOf(jsons)[k].endPositionId :
                    \E j \in 1..(ShowPlaces[k] - 1) :
                        seen.calls[j] = BookmarkPage(p)

\* two pages, the first with a linked text run, the second with an image,
\* each ended by bookmarks of its own
C21_Witness ==
    /\ BatchComposed
    /\ Len(PagesOf(jsons)) = 2
    /\ PagesOf(jsons)[1].children # <<>>
    /\ PagesOf(jsons)[1].children[1].type = "run"
    /\ Has(PagesOf(jsons)[1].children[1], "link")
    /\ PagesOf(jsons)[2].children # <<>>
    /\ PagesOf(jsons)[2].children[1].type = "image"
    /\ PagesOf(jsons)[1].endPositionId < PagesOf(jsons)[2].endPositionId
    /\ Len(ShowPlaces) = 2
    /\ Len(PageCalls(1)) = 3
    /\ Len(PageCalls(2)) >= 2

(***************************************************************************)
(* C22.  The progress of the loop of render_book.                          *)
(***************************************************************************)
\* C22 as stated: every pass of the loop that render_pdf returns from leaves
\* start_pos strictly greater than it was when the batch was fetched
C22_CursorStrictlyGrows ==
    [][pc = "pages" /\ pc' = "loop" => start_pos' > start_pos]_vars

\* what the code does: a batch with documents was fetched and handed to
\* render_pdf, and the loop test is evaluated again at the position the
\* batch was fetched from
C22_Witness ==
    /\ pc = "loop"
    /\ ~NoDocuments(jsons)
    /\ start_pos = 0
    /\ cursor = 0
    /\ InBook(start_pos, session)
    /\ pdf_canvas.bookmarks = <<>>

\* the same with a page list that is absent from the batch
C22_WitnessNoPageList ==
    /\ pc = "loop"
    /\ ~NoDocuments(jsons)
    /\ ~Has(jsons, PageDoc)
    /\ start_pos = 0
    /\ InBook(start_pos, session)

(***************************************************************************)
(* C23.  The auth of one render_book_pages call.                           *)
(***************************************************************************)
UsesOf(what) == {use \in call.uses : use.what = what}

\* C23: the render request, the image downloads and the key derivation of
\* one render_book_pages call all carry one auth, token and expiresAt, which
\* is the auth of the session after the expiry test of that call (the
\* renewed one when the test renewed); the session is not changed by the
\* step that requests, downloads and decrypts
C23_OneAuthPerCall ==
    /\ [](Fetched =>
            /\ UsesOf("render") # {}
            /\ \A use \in call.uses : use.auth = session.auth
            /\ \A sent \in UsesOf("render") \cup UsesOf("download") :
                  \A derived \in UsesOf("derive") :
                      derived.auth = sent.auth)
    /\ [][Requesting => session' = session]_vars

\* a call that renewed the session, then requested, downloaded and decrypted
C23_Witness ==
    /\ Fetched
    /\ pc = "fetched"
    /\ call.renewed
    /\ session.auth # call.held
    /\ UsesOf("render") # {}
    /\ UsesOf("download") # {}
    /\ UsesOf("derive") # {}
    /\ DOMAIN images # {}

\* a call that did not renew
C23_WitnessKept ==
    /\ Fetched
    /\ pc = "fetched"
    /\ ~call.renewed
    /\ UsesOf("download") # {}
    /\ UsesOf("derive") # {}

====
